---- MODULE Spec2Model ----
(***************************************************************************)
(* Model of cell_census.experiment_query.query: ExperimentQuery, its       *)
(* scoped helper experiment_query, AxisIndexer, and the async facade       *)
(* AsyncExperimentQuery with to_thread, async_iter and wrap_generator.     *)
(*                                                                         *)
(* One query object is modelled.  Init is the moment experiment_query has  *)
(* constructed it and yielded it to the body of the with-statement;        *)
(* InitNew is the moment before construction.  The body is a single        *)
(* logical owner that issues one operation at a time, except in SpecRace,  *)
(* where two callers run _read_axis_dataframe at the same time.  The store *)
(* (soma.Experiment) does not change during the query.                     *)
(***************************************************************************)
EXTENDS Integers, Sequences, FiniteSets, TLC

(***************************************************************************)
(* Bounds of the model.                                                    *)
(***************************************************************************)
\* Rows per chunk delivered by the storage iterator X.read_table.
ChunkSize == 2
\* Cap of the ghost counter of index builds per axis.
MaxBuilds == 2

(***************************************************************************)
(* Optional values (Python None / a value).                                *)
(***************************************************************************)
None == [some |-> FALSE, val |-> <<>>]
Some(v) == [some |-> TRUE, val |-> v]

Range(s) == {s[i] : i \in 1..Len(s)}

Axes == {"obs", "var"}

(***************************************************************************)
(* The store: the experiment's obs dataframe, the measurement's var        *)
(* dataframe and its X collection.  Every axis dataframe has the columns   *)
(* soma_joinid (unique row identifier) and a.                              *)
(***************************************************************************)
SchemaCols == <<"soma_joinid", "a">>

ObsStore ==
    << [soma_joinid |-> 10, a |-> 1], [soma_joinid |-> 20, a |-> 2],
       [soma_joinid |-> 30, a |-> 1], [soma_joinid |-> 99, a |-> 2] >>

VarStore ==
    << [soma_joinid |-> 1, a |-> 1], [soma_joinid |-> 2, a |-> 2] >>

AxisStore(axis) == IF axis = "obs" THEN ObsStore ELSE VarStore

Cell(r, c, v) == [soma_dim_0 |-> r, soma_dim_1 |-> c, soma_data |-> v]

XCollection ==
    [ raw   |-> [soma_type |-> "SOMASparseNDArray",
                 cells |-> << Cell(10, 1, 5), Cell(20, 2, 7), Cell(99, 1, 1), Cell(30, 2, 3) >>],
      norm  |-> [soma_type |-> "SOMASparseNDArray",
                 cells |-> << Cell(20, 1, 4), Cell(10, 2, 6) >>],
      dense |-> [soma_type |-> "SOMADenseNDArray", cells |-> << >>] ]

(***************************************************************************)
(* Axis queries (AxisQuery: coords and value_filter).  The value filter is *)
(* the set of values of column a that it lets through.                     *)
(***************************************************************************)
AllA == {1, 2}
ObsSome  == [coords |-> {10, 20, 30}, value_filter |-> AllA]
ObsByA   == [coords |-> {10, 20, 30, 99}, value_filter |-> {2}]
ObsEmpty == [coords |-> {}, value_filter |-> AllA]
VarAll   == [coords |-> {1, 2}, value_filter |-> AllA]
VarOne   == [coords |-> {2}, value_filter |-> AllA]
VarEmpty == [coords |-> {1, 2}, value_filter |-> {}]

\* The queries the model constructs.
Queries ==
    { [obs |-> ObsSome, var |-> VarAll], [obs |-> ObsByA, var |-> VarOne],
      [obs |-> ObsEmpty, var |-> VarAll], [obs |-> ObsSome, var |-> VarEmpty] }

(***************************************************************************)
(* Arrow tables: an ordered list of column names and a sequence of rows,   *)
(* each row a function from the column names to values.                    *)
(***************************************************************************)
\* tbl.select(names)
Select(tbl, names) ==
    [cols |-> names,
     rows |-> [i \in 1..Len(tbl.rows) |-> [c \in Range(names) |-> tbl.rows[i][c]]]]

\* tbl.column(name).combine_chunks()
Column(tbl, name) == [i \in 1..Len(tbl.rows) |-> tbl.rows[i][name]]

\* axis_df.read_all(ids=coords, value_filter=value_filter, column_names=cols):
\* the rows of the store, in store order, that the query selects; all the
\* columns of the schema when cols is None.
ReadAll(axis, q, cols) ==
    LET Keep(r) == r.soma_joinid \in q.coords /\ r.a \in q.value_filter
        full == [cols |-> SchemaCols, rows |-> SelectSeq(AxisStore(axis), Keep)]
    IN IF cols.some THEN Select(full, cols.val) ELSE full

(***************************************************************************)
(* ExperimentQuery._read_axis_dataframe                                    *)
(***************************************************************************)
NeedJoinids(j, axis) == ~j[axis].some

QueryColumns(need, column_names) ==
    IF need /\ column_names.some /\ "soma_joinid" \notin Range(column_names.val)
    THEN Some(<<"soma_joinid">> \o column_names.val)
    ELSE column_names

\* The identifier column taken from the table of the physical read (line 127).
JoinidColumnFirst(tbl) == Column(tbl, tbl.cols[1])
JoinidColumn(tbl) == Column(tbl, "soma_joinid")

\* The cache after read_all raised: the exception leaves line 124, so the
\* assignment of line 127 is never reached.
FailedReadSetsEmpty(j, axis) == [j EXCEPT ![axis] = Some(<< >>)]
FailedReadJoinids(j, axis) == j

\* ok: whether the storage read succeeds.  The result carries the outcome, the
\* returned table, the cache afterwards and the number of storage reads issued.
ReadAxisDataframe(j, q, axis, column_names, ok) ==
    LET need == NeedJoinids(j, axis)
        tbl  == ReadAll(axis, q[axis], QueryColumns(need, column_names))
    IN IF ~ok
       THEN [outcome |-> "StorageError", value |-> << >>,
             joinids |-> FailedReadJoinids(j, axis), reads |-> 1]
       ELSE [outcome |-> "ok",
             value   |-> IF column_names.some THEN Select(tbl, column_names.val) ELSE tbl,
             joinids |-> IF need THEN [j EXCEPT ![axis] = Some(JoinidColumn(tbl))] ELSE j,
             reads   |-> 1]

(***************************************************************************)
(* ExperimentQuery._read_axis_joinids                                      *)
(***************************************************************************)
ReadAxisJoinids(j, q, axis, ok) ==
    IF ~j[axis].some
    THEN LET r == ReadAxisDataframe(j, q, axis, Some(<<"soma_joinid">>), ok)
         IN [r EXCEPT !.value = r.joinids[axis].val]
    ELSE [outcome |-> "ok", value |-> j[axis].val, joinids |-> j, reads |-> 0]

(***************************************************************************)
(* AxisIndexer: pd.Index(data=joinids) and pd.Index.get_indexer.           *)
(***************************************************************************)
\* The value get_indexer gives for a label that is not in the index.
Sentinel == -1

PositionOneBased(index, c) ==
    IF \E k \in 1..Len(index) : index[k] = c
    THEN CHOOSE k \in 1..Len(index) : index[k] = c
    ELSE Sentinel
\* Position of label c in a unique index, 0-based.
Position(index, c) ==
    IF \E k \in 1..Len(index) : index[k] = c
    THEN (CHOOSE k \in 1..Len(index) : index[k] = c) - 1
    ELSE Sentinel

GetIndexer(index, coords) == [i \in 1..Len(coords) |-> Position(index, coords[i])]

\* Whether obs_index / var_index has to build the index (lines 451, 458).
BuildAlways(ix, axis) == TRUE
MustBuild(ix, axis) == ~ix[axis].some

\* AxisIndexer.obs_index / var_index.  The result carries the outcome, the
\* positions, the caches afterwards and the number of index builds and
\* storage reads.
AxisIndex(ix, j, q, axis, coords, ok) ==
    IF MustBuild(ix, axis)
    THEN LET r == ReadAxisJoinids(j, q, axis, ok)
         IN IF r.outcome # "ok"
            THEN [outcome |-> r.outcome, value |-> << >>, indexer |-> ix,
                  joinids |-> r.joinids, built |-> 0, reads |-> r.reads]
            ELSE [outcome |-> "ok", value |-> GetIndexer(r.value, coords),
                  indexer |-> [ix EXCEPT ![axis] = Some(r.value)],
                  joinids |-> r.joinids, built |-> 1, reads |-> r.reads]
    ELSE [outcome |-> "ok", value |-> GetIndexer(ix[axis].val, coords),
          indexer |-> ix, joinids |-> j, built |-> 0, reads |-> 0]

(***************************************************************************)
(* The matrix: X.read_table((obs_joinids, var_joinids)) and _fetchX.       *)
(***************************************************************************)
Min(a, b) == IF a < b THEN a ELSE b

\* A sequence cut into chunks of ChunkSize rows (the last one may be shorter).
Chunks(cells) ==
    LET n == Len(cells)
        k == (n + ChunkSize - 1) \div ChunkSize
    IN [i \in 1..k |-> SubSeq(cells, (i - 1) * ChunkSize + 1, Min(i * ChunkSize, n))]

\* The storage iterator: the stored cells whose row is in obs_ids and whose
\* column is in var_ids, in storage order, chunk by chunk.
XReadTable(layer, obs_ids, var_ids) ==
    LET Keep(c) == c.soma_dim_0 \in Range(obs_ids) /\ c.soma_dim_1 \in Range(var_ids)
    IN Chunks(SelectSeq(XCollection[layer].cells, Keep))

\* Lines 168-170: an empty identifier set is answered without a storage read.
EmptySelection(j) == Len(j["obs"].val) = 0 \/ Len(j["var"].val) = 0

\* What _fetchX yields for an empty selection (line 169): one table,
\* pa.Table.from_pylist([], schema=X.schema), which has no rows.
NoChunks == << >>
EmptySelectionChunks == << << >> >>

\* The whole sequence of chunks _fetchX yields when run to exhaustion (the
\* same with and without prefetch); both caches are set.
FetchX(layer, j) ==
    IF EmptySelection(j) THEN EmptySelectionChunks
    ELSE XReadTable(layer, j["obs"].val, j["var"].val)

\* pa.concat_tables: the rows of all chunks, in order.
ConcatTables(chunks) ==
    LET F[i \in 0..Len(chunks)] == IF i = 0 THEN << >> ELSE F[i - 1] \o chunks[i]
    IN F[Len(chunks)]

(***************************************************************************)
(* ExperimentQuery.read                                                    *)
(***************************************************************************)
\* A matrix name as passed by the caller: a string, or something else.
Name(str) == [isStr |-> TRUE, s |-> str]
NotAString == [isStr |-> FALSE, s |-> "7"]

\* Lines 228-234 for one name.
NameErrorAllValueError(n) ==
    IF ~n.isStr \/ n.s = "" THEN "ValueError"
    ELSE IF n.s \notin DOMAIN XCollection THEN "ValueError"
    ELSE IF XCollection[n.s].soma_type # "SOMASparseNDArray" THEN "ValueError"
    ELSE "ok"
NameError(n) ==
    IF ~n.isStr \/ n.s = "" THEN "ValueError"
    ELSE IF n.s \notin DOMAIN XCollection THEN "ValueError"
    ELSE IF XCollection[n.s].soma_type # "SOMASparseNDArray" THEN "NotImplementedError"
    ELSE "ok"

\* The loop of lines 227-234: the error of the first offending name.
ValidateNamesSkipsType(names) ==
    LET Bad == {i \in 1..Len(names) : NameError(names[i]) = "ValueError"}
    IN IF Bad = {} THEN "ok" ELSE "ValueError"
ValidateNames(names) ==
    LET Bad == {i \in 1..Len(names) : NameError(names[i]) # "ok"}
    IN IF Bad = {} THEN "ok"
       ELSE NameError(names[CHOOSE i \in Bad : \A k \in Bad : i <= k])

\* Lines 236-241: column_names is None or a dict that may lack a key.
NormalizeColumnNames(cn) ==
    [a \in Axes |-> IF cn.some /\ a \in DOMAIN cn.val THEN cn.val[a] ELSE None]

\* One row of a matrix table after _rewrite_X_for_positional_indexing.
PositionalRow(r, c, v) == ("_dim_0" :> r) @@ ("_dim_1" :> c) @@ ("soma_data" :> v)

\* Lines 301-308 for one table; oi and vi are the built indexes.
RewriteTable(rows, oi, vi) ==
    LET d0 == GetIndexer(oi, [i \in 1..Len(rows) |-> rows[i].soma_dim_0])
        d1 == GetIndexer(vi, [i \in 1..Len(rows) |-> rows[i].soma_dim_1])
    IN [i \in 1..Len(rows) |-> PositionalRow(d0[i], d1[i], rows[i].soma_data)]

\* The whole of read.  okObs, okVar: whether the storage read of the axis
\* succeeds.  The result carries the outcome, the returned record, the caches
\* afterwards, the storage reads issued (per axis, and X: of matrices), and
\* per axis the reads that failed and the indexes built.
Read(j, ix, q, X_name, use_position_indexing, column_names, X_layers, okObs, okVar) ==
    LET all_X_names == <<X_name>> \o X_layers
        valid == ValidateNames(all_X_names)
        cols  == NormalizeColumnNames(column_names)
        rObs  == ReadAxisDataframe(j, q, "obs", cols["obs"], okObs)
        rVar  == ReadAxisDataframe(rObs.joinids, q, "var", cols["var"], okVar)
        j2    == rVar.joinids
        names == {all_X_names[i].s : i \in 1..Len(all_X_names)}
        chunks == [n \in names |-> FetchX(n, j2)]
        X_tables == [n \in names |-> ConcatTables(chunks[n])]
        bObs  == AxisIndex(ix, j2, q, "obs", << >>, TRUE)
        bVar  == AxisIndex(bObs.indexer, j2, q, "var", << >>, TRUE)
        ix2   == IF use_position_indexing THEN bVar.indexer ELSE ix
        built == IF use_position_indexing
                 THEN [obs |-> bObs.built, var |-> bVar.built]
                 ELSE [obs |-> 0, var |-> 0]
        new_X_tables ==
            [n \in names |->
                IF use_position_indexing
                THEN RewriteTable(X_tables[n], ix2["obs"].val, ix2["var"].val)
                ELSE X_tables[n]]
        rest  == names \ {X_name.s}
        none  == [obs |-> 0, var |-> 0]
        nX    == Len(all_X_names)
        firstEmpty == CHOOSE i \in 1..nX :
                         /\ Len(chunks[all_X_names[i].s]) = 0
                         /\ \A k \in 1..(i - 1) : Len(chunks[all_X_names[k].s]) # 0
        issued(x) == [obs |-> 1, var |-> 1, X |-> IF EmptySelection(j2) THEN 0 ELSE x]
        fail(outcome, jj, ii, rd, fl, bl) ==
            [outcome |-> outcome, value |-> << >>, joinids |-> jj, indexer |-> ii,
             reads |-> rd, failed |-> fl, built |-> bl]
        fl2   == [obs |-> ~okObs, var |-> ~okVar]
    IN IF valid # "ok"
       THEN fail(valid, j, ix, [obs |-> 0, var |-> 0, X |-> 0],
                 [obs |-> FALSE, var |-> FALSE], none)
       ELSE IF rObs.outcome # "ok"
       THEN fail(rObs.outcome, j2, ix, [obs |-> 1, var |-> 1, X |-> 0], fl2, none)
       ELSE IF rVar.outcome # "ok"
       THEN fail(rVar.outcome, j2, ix, [obs |-> 1, var |-> 1, X |-> 0], fl2, none)
       ELSE IF \E n \in names : Len(chunks[n]) = 0
       THEN fail("ArrowInvalid", j2, ix, issued(firstEmpty), fl2, none)
       ELSE IF Len(X_layers) > 0 /\ Len(X_layers) # Cardinality(rest)
       THEN fail("AssertionError", j2, ix2, issued(nX), fl2, built)
       ELSE [outcome |-> "ok",
             value   |-> [obs |-> rObs.value,
                          var |-> rVar.value,
                          X |-> new_X_tables[X_name.s],
                          X_layers |-> [n \in rest |-> new_X_tables[n]]],
             joinids |-> j2, indexer |-> ix2,
             reads |-> issued(nX), failed |-> fl2, built |-> built]

(***************************************************************************)
(* ExperimentQuery.X: validation (lines 192-199) and the test that decides *)
(* whether an axis is resolved on the pool (lines 202, 204).               *)
(***************************************************************************)
XValidate(layer) ==
    IF layer = "" THEN "ValueError"
    ELSE IF layer \notin DOMAIN XCollection THEN "ValueError"
    ELSE IF XCollection[layer].soma_type # "SOMASparseNDArray" THEN "NotImplementedError"
    ELSE "ok"

\* not self._joinids[axis]: None, or an array of length 0.
Falsy(x) == ~x.some \/ Len(x.val) = 0

\* The pool task self.obs_joinids / self.var_joinids, when it is submitted.
ResolveTask(j, q, axis, ok) ==
    IF Falsy(j[axis]) THEN ReadAxisJoinids(j, q, axis, ok)
    ELSE [outcome |-> "ok", value |-> j[axis].val, joinids |-> j, reads |-> 0]

(***************************************************************************)
(* The async facade: to_thread, wrap_generator and async_iter.             *)
(***************************************************************************)
\* Where a blocking call runs: in the calling thread, on the query's own pool
\* (self._default_threadpool, line 97), or on the default executor of the
\* running event loop (loop.run_in_executor(None, ...), line 428).
CallerThread == "caller"
QueryPool == "query_pool"
LoopDefaultExecutor == "loop_default"

\* to_thread (lines 418-428): the executor the call is dispatched onto.
ToThreadExecutor == LoopDefaultExecutor

\* wrap_generator._next (lines 403-409) around one advance of a generator
\* that yields value (outcome "chunk"), returns ("StopIteration") or raises.
WrapNextLeaksStop(outcome, value) ==
    IF outcome = "chunk" THEN [raised |-> "-", value |-> Some(value), done |-> FALSE]
    ELSE IF outcome = "StopIteration"
    THEN [raised |-> "RuntimeError", value |-> None, done |-> FALSE]
    ELSE [raised |-> outcome, value |-> None, done |-> FALSE]
WrapNext(outcome, value) ==
    IF outcome = "chunk" THEN [raised |-> "-", value |-> Some(value), done |-> FALSE]
    ELSE IF outcome = "StopIteration" THEN [raised |-> "-", value |-> None, done |-> TRUE]
    ELSE [raised |-> outcome, value |-> None, done |-> FALSE]

\* async_iter (lines 386-391) on the pair fn returned: what the consumer of
\* the async sequence gets from this step.
AsyncIterEndsOnFalsy(r) ==
    IF r.raised # "-" THEN [outcome |-> r.raised, value |-> << >>]
    ELSE IF r.done \/ ~r.value.some \/ Len(r.value.val) = 0
    THEN [outcome |-> "StopAsyncIteration", value |-> << >>]
    ELSE [outcome |-> "chunk", value |-> r.value.val]
AsyncIter(r) ==
    IF r.raised # "-" THEN [outcome |-> r.raised, value |-> << >>]
    ELSE IF r.done THEN [outcome |-> "StopAsyncIteration", value |-> << >>]
    ELSE IF ~r.value.some THEN [outcome |-> "AssertionError", value |-> << >>]
    ELSE [outcome |-> "chunk", value |-> r.value.val]

\* One advance as its consumer sees it: of the generator itself (mode
\* "sync"), or through the async facade (mode "async").
Step(mode, outcome, value) ==
    IF mode = "sync" THEN [outcome |-> outcome, value |-> value]
    ELSE AsyncIter(WrapNext(outcome, value))

\* The operation an advance is recorded as, and the executor it is
\* dispatched onto.
StepOp(mode) == IF mode = "sync" THEN "next" ELSE "anext"
StepExecutor(mode) == IF mode = "sync" THEN CallerThread ELSE ToThreadExecutor

(***************************************************************************)
(* State.                                                                  *)
(***************************************************************************)
VARIABLES
    query,        \* _query: the AxisQuery of each axis (fixed at construction)
    joinids,      \* _joinids: the identifier cache of each axis
    indexer,      \* _indexer: _obs_index and _var_index
    pool,         \* _default_threadpool: "open", "closing", "shutdown"
    cm,           \* position of the with-statement over experiment_query
    gen,          \* the generator returned by the latest call of X
    last,         \* the latest operation of the owner and how it ended
    ret,          \* what the latest operation returned or yielded
    closeCalls,   \* number of calls of close()
    builds,       \* per axis, number of times the index was built
    failedFirst,  \* per axis, whether a storage read failed while the cache was unset
    callers       \* per concurrent caller of obs() / var(), its place in _read_axis_dataframe

vars == <<query, joinids, indexer, pool, cm, gen, last, ret, closeCalls, builds, failedFirst,
          callers>>

\* The threads that call obs() / var() on the one query at the same time.
Callers == {1, 2}
Idle == [pc |-> "idle", axis |-> "-", need |-> FALSE, ids |-> << >>,
         assigned |-> FALSE, reads |-> 0]

NoFuture == [state |-> "none", value |-> << >>, done |-> FALSE]
NoGen == [pc |-> "none", layer |-> "", prefetch |-> FALSE, iter |-> << >>,
          future |-> NoFuture, inflight |-> 0, yielded |-> 0, out |-> << >>,
          mode |-> "sync"]

Zero == [a \in Axes |-> 0]
NoFail == [a \in Axes |-> FALSE]
One(axis, n) == [a \in Axes |-> IF a = axis THEN n ELSE 0]
Flag(axis, b) == [a \in Axes |-> a = axis /\ b]

\* The record kept of an operation.
Last(op, axis, outcome, rd, fl, arg) ==
    [op |-> op, axis |-> axis, outcome |-> outcome,
     cachedBefore |-> [a \in Axes |-> joinids[a].some],
     reads |-> rd, failed |-> fl, arg |-> arg]

Note(fl) ==
    failedFirst' = [a \in Axes |-> failedFirst[a] \/ (fl[a] /\ ~joinids[a].some)]

Init ==
    /\ query \in Queries
    /\ joinids = [a \in Axes |-> None]
    /\ indexer = [a \in Axes |-> None]
    /\ pool = "open"
    /\ cm = "body"
    /\ gen = NoGen
    /\ last = [op |-> "init", axis |-> "-", outcome |-> "-",
               cachedBefore |-> NoFail, reads |-> Zero, failed |-> NoFail, arg |-> << >>]
    /\ ret = << >>
    /\ closeCalls = 0
    /\ builds = Zero
    /\ failedFirst = NoFail
    /\ callers = [c \in Callers |-> Idle]

(***************************************************************************)
(* Construction: ExperimentQuery.__init__ as called by experiment_query    *)
(* (line 330).                                                             *)
(***************************************************************************)
\* The measurements of the experiment (experiment.ms).
Measurements == {"RNA"}

\* Lines 78-97: the outcome, and the pool the constructor leaves behind
\* ("none": no ThreadPoolExecutor was created).
ConstructionPoolFirst(exists, measurement_name) ==
    IF ~exists THEN [outcome |-> "ValueError", pool |-> "open"]
    ELSE IF measurement_name \notin Measurements
    THEN [outcome |-> "ValueError", pool |-> "open"]
    ELSE [outcome |-> "ok", pool |-> "open"]
Construction(exists, measurement_name) ==
    IF ~exists THEN [outcome |-> "ValueError", pool |-> "none"]
    ELSE IF measurement_name \notin Measurements
    THEN [outcome |-> "ValueError", pool |-> "none"]
    ELSE [outcome |-> "ok", pool |-> "open"]

\* The state before experiment_query has constructed the query.
InitNew ==
    /\ query \in Queries
    /\ joinids = [a \in Axes |-> None]
    /\ indexer = [a \in Axes |-> None]
    /\ pool = "none"
    /\ cm = "new"
    /\ gen = NoGen
    /\ last = [op |-> "init", axis |-> "-", outcome |-> "-",
               cachedBefore |-> NoFail, reads |-> Zero, failed |-> NoFail, arg |-> << >>]
    /\ ret = << >>
    /\ closeCalls = 0
    /\ builds = Zero
    /\ failedFirst = NoFail
    /\ callers = [c \in Callers |-> Idle]

\* experiment_query(experiment, measurement_name, ...) up to its yield: the
\* constructor raises, or the query is handed to the with-body.
Construct(exists, measurement_name) ==
    \E r \in { Construction(exists, measurement_name) } :
       /\ cm = "new"
       /\ cm' = IF r.outcome = "ok" THEN "body" ELSE "failed"
       /\ pool' = r.pool
       /\ ret' = << >>
       /\ last' = Last("construct", "-", r.outcome, Zero, NoFail,
                       [exists |-> exists, measurement_name |-> measurement_name])
       /\ UNCHANGED <<query, callers, joinids, indexer, gen, closeCalls, builds, failedFirst>>

\* The owner is inside the with-body and not blocked inside next(gen).
Owner == cm = "body" /\ gen.pc # "await"

(***************************************************************************)
(* Inputs.                                                                 *)
(***************************************************************************)
ColumnChoices ==
    { None, Some(<<"a">>), Some(<<"soma_joinid">>), Some(<<"a", "soma_joinid">>) }
CoordChoices(axis) ==
    IF axis = "obs" THEN { <<20, 10, 20>>, <<99, 5, 30>> } ELSE { <<2, 1, 2>>, <<3>> }
LayerChoices == { "", "raw", "dense", "nope" }
\* The calls of read the model tries: X_name, X_layers, use_position_indexing
\* and column_names.  Calls whose names are all valid vary in every argument;
\* for calls with an offending name the other arguments do not matter.
ReadColumnChoices == { None, Some([obs |-> Some(<<"a">>)]) }
ReadCall(X_name, X_layers, upi, cn) ==
    [X_name |-> X_name, X_layers |-> X_layers, use_position_indexing |-> upi,
     column_names |-> cn]
ReadChoices ==
    { ReadCall(Name("raw"), ls, upi, cn) :
        ls \in { << >>, <<Name("norm")>>, <<Name("raw")>> },
        upi \in BOOLEAN, cn \in ReadColumnChoices }
    \cup { ReadCall(n, << >>, FALSE, None) :
              n \in { Name(""), Name("nope"), Name("dense"), NotAString } }
    \cup { ReadCall(Name("raw"), ls, TRUE, None) :
              ls \in { <<Name("dense")>>, <<Name("norm"), NotAString>>,
                       <<Name("dense"), Name("nope")>> } }

(***************************************************************************)
(* Operations of the owner.                                                *)
(***************************************************************************)
\* obs(column_names=...) / var(column_names=...)
AxisTable(axis, column_names, ok) ==
    \E r \in { ReadAxisDataframe(joinids, query, axis, column_names, ok) } :
       /\ Owner
       /\ joinids' = r.joinids
       /\ ret' = r.value
       /\ last' = Last("axis_table", axis, r.outcome, One(axis, r.reads),
                       Flag(axis, ~ok), [column_names |-> column_names])
       /\ Note(Flag(axis, ~ok))
       /\ UNCHANGED <<query, callers, indexer, pool, cm, gen, closeCalls, builds>>

\* obs_joinids() / var_joinids()
AxisJoinids(axis, ok) ==
    \E r \in { ReadAxisJoinids(joinids, query, axis, ok) } :
       /\ Owner
       /\ joinids' = r.joinids
       /\ ret' = IF r.outcome = "ok" THEN r.value ELSE << >>
       /\ last' = Last("axis_joinids", axis, r.outcome, One(axis, r.reads),
                       Flag(axis, r.reads = 1 /\ ~ok), << >>)
       /\ Note(Flag(axis, r.reads = 1 /\ ~ok))
       /\ UNCHANGED <<query, callers, indexer, pool, cm, gen, closeCalls, builds>>

\* n_obs / n_vars
AxisCountFullAxis(axis, ok) ==
    \E r \in { ReadAxisJoinids(joinids, query, axis, ok) } :
       /\ Owner
       /\ joinids' = r.joinids
       /\ ret' = IF r.outcome = "ok" THEN <<Len(AxisStore(axis))>> ELSE << >>
       /\ last' = Last("axis_count", axis, r.outcome, One(axis, r.reads),
                       Flag(axis, r.reads = 1 /\ ~ok), << >>)
       /\ Note(Flag(axis, r.reads = 1 /\ ~ok))
       /\ UNCHANGED <<query, callers, indexer, pool, cm, gen, closeCalls, builds>>
AxisCount(axis, ok) ==
    \E r \in { ReadAxisJoinids(joinids, query, axis, ok) } :
       /\ Owner
       /\ joinids' = r.joinids
       /\ ret' = IF r.outcome = "ok" THEN <<Len(r.value)>> ELSE << >>
       /\ last' = Last("axis_count", axis, r.outcome, One(axis, r.reads),
                       Flag(axis, r.reads = 1 /\ ~ok), << >>)
       /\ Note(Flag(axis, r.reads = 1 /\ ~ok))
       /\ UNCHANGED <<query, callers, indexer, pool, cm, gen, closeCalls, builds>>

\* AsyncExperimentQuery.obs / var (lines 356-360): the blocking call is
\* dispatched with to_thread and awaited.
AsyncAxisTable(axis, column_names, ok) ==
    \E r \in { ReadAxisDataframe(joinids, query, axis, column_names, ok) } :
       /\ Owner
       /\ joinids' = r.joinids
       /\ ret' = r.value
       /\ last' = Last("async_axis_table", axis, r.outcome, One(axis, r.reads),
                       Flag(axis, ~ok),
                       [column_names |-> column_names, executor |-> ToThreadExecutor])
       /\ Note(Flag(axis, ~ok))
       /\ UNCHANGED <<query, callers, indexer, pool, cm, gen, closeCalls, builds>>

\* AsyncExperimentQuery.obs_joinids / var_joinids (lines 362-370): a cache
\* that is set is returned by the coroutine itself; otherwise the blocking
\* call is dispatched with to_thread and awaited.
AsyncAxisJoinids(axis, ok) ==
    \E r \in { ReadAxisJoinids(joinids, query, axis, ok) } :
       /\ Owner
       /\ joinids' = r.joinids
       /\ ret' = IF r.outcome = "ok" THEN r.value ELSE << >>
       /\ last' = Last("async_axis_joinids", axis, r.outcome, One(axis, r.reads),
                       Flag(axis, r.reads = 1 /\ ~ok),
                       [executor |-> IF joinids[axis].some THEN CallerThread
                                     ELSE ToThreadExecutor])
       /\ Note(Flag(axis, r.reads = 1 /\ ~ok))
       /\ UNCHANGED <<query, callers, indexer, pool, cm, gen, closeCalls, builds>>

\* get_indexer().obs_index(coords) / var_index(coords)
Index(axis, coords, ok) ==
    \E r \in { AxisIndex(indexer, joinids, query, axis, coords, ok) } :
       /\ Owner
       /\ builds[axis] + r.built <= MaxBuilds
       /\ joinids' = r.joinids
       /\ indexer' = r.indexer
       /\ builds' = [builds EXCEPT ![axis] = @ + r.built]
       /\ ret' = r.value
       /\ last' = Last("index", axis, r.outcome, One(axis, r.reads),
                       Flag(axis, r.reads = 1 /\ ~ok), [coords |-> coords, built |-> r.built])
       /\ Note(Flag(axis, r.reads = 1 /\ ~ok))
       /\ UNCHANGED <<query, callers, pool, cm, gen, closeCalls>>

\* read(X_name, use_position_indexing=..., column_names=..., X_layers=...)
ReadOp(call, okObs, okVar) ==
    \E r \in { Read(joinids, indexer, query, call.X_name, call.use_position_indexing,
                  call.column_names, call.X_layers, okObs, okVar) } :
       /\ Owner
       /\ \A a \in Axes : builds[a] + r.built[a] <= MaxBuilds
       /\ joinids' = r.joinids
       /\ indexer' = r.indexer
       /\ builds' = [a \in Axes |-> builds[a] + r.built[a]]
       /\ ret' = r.value
       /\ last' = Last("read", "-", r.outcome, r.reads,
                       [a \in Axes |-> r.reads[a] = 1 /\ r.failed[a]],
                       call)
       /\ Note([a \in Axes |-> r.reads[a] = 1 /\ r.failed[a]])
       /\ UNCHANGED <<query, callers, pool, cm, gen, closeCalls>>

(***************************************************************************)
(* X(layer, prefetch): a generator function.  Calling it runs none of its  *)
(* body; the body runs when the caller advances the generator.             *)
(***************************************************************************)
XCall(layer, prefetch) ==
    /\ Owner
    /\ gen.inflight = 0
    /\ gen' = [NoGen EXCEPT !.pc = "created", !.layer = layer, !.prefetch = prefetch]
    /\ ret' = << >>
    /\ last' = Last("X", "-", "generator", Zero, NoFail, [layer |-> layer, prefetch |-> prefetch])
    /\ UNCHANGED <<query, callers, joinids, indexer, pool, cm, closeCalls, builds, failedFirst>>

\* X(layer, prefetch) of the async facade (lines 372-375): an async generator
\* function; calling it runs none of its body either.
AsyncXCall(layer, prefetch) ==
    /\ Owner
    /\ gen.inflight = 0
    /\ gen' = [NoGen EXCEPT !.pc = "created", !.layer = layer, !.prefetch = prefetch,
                            !.mode = "async"]
    /\ ret' = << >>
    /\ last' = Last("async_X", "-", "generator", Zero, NoFail,
                    [layer |-> layer, prefetch |-> prefetch])
    /\ UNCHANGED <<query, callers, joinids, indexer, pool, cm, closeCalls, builds, failedFirst>>

\* What the record of an advance keeps: where the generator was, its
\* arguments, how many chunks the generator has yielded, the chunks handed to
\* the consumer so far, and the executor the advance was dispatched onto.
StepArg(from, yielded, out) ==
    [from |-> from, layer |-> gen.layer, prefetch |-> gen.prefetch,
     yielded |-> yielded, out |-> out, executor |-> StepExecutor(gen.mode)]

\* The sequence ends for its consumer with the given outcome.
GenCloses(outcome, rd, fl, from, yielded) ==
    /\ gen' = [NoGen EXCEPT !.pc = "closed", !.inflight = gen.inflight]
    /\ ret' = << >>
    /\ last' = Last(StepOp(gen.mode), "-", outcome, rd, fl,
                    StepArg(from, yielded, gen.out))

\* The generator ends: by return (StopIteration) or by an exception.
GenEnds(outcome, rd, fl, from) ==
    GenCloses(Step(gen.mode, outcome, << >>).outcome, rd, fl, from, gen.yielded)

\* The generator yields the first chunk of chunks and keeps the rest.
GenYieldsKeepsHead(chunks, pc, rd, fl, from) ==
    \E s \in { Step(gen.mode, "chunk", Head(chunks)) } :
       IF s.outcome = "chunk"
       THEN /\ gen' = [gen EXCEPT !.pc = pc, !.iter = chunks, !.yielded = @ + 1,
                                  !.out = Append(@, s.value)]
            /\ ret' = s.value
            /\ last' = Last(StepOp(gen.mode), "-", "chunk", rd, fl,
                            StepArg(from, gen.yielded + 1, Append(gen.out, s.value)))
       ELSE GenCloses(s.outcome, rd, fl, from, gen.yielded + 1)
GenYields(chunks, pc, rd, fl, from) ==
    \E s \in { Step(gen.mode, "chunk", Head(chunks)) } :
       IF s.outcome = "chunk"
       THEN /\ gen' = [gen EXCEPT !.pc = pc, !.iter = Tail(chunks), !.yielded = @ + 1,
                                  !.out = Append(@, s.value)]
            /\ ret' = s.value
            /\ last' = Last(StepOp(gen.mode), "-", "chunk", rd, fl,
                            StepArg(from, gen.yielded + 1, Append(gen.out, s.value)))
       ELSE GenCloses(s.outcome, rd, fl, from, gen.yielded + 1)

\* The generator blocks in _prefetch_future.result() (line 181).
GenBlocks(rd, fl, from) ==
    /\ ret' = << >>
    /\ last' = Last(StepOp(gen.mode), "-", "blocked", rd, fl,
                    StepArg(from, gen.yielded, gen.out))

\* First advance of the generator: lines 192-209 and _fetchX up to its first
\* yield, return or future.result().
XStart(okObs, okVar) ==
    LET valid == XValidate(gen.layer)
        tObs  == ResolveTask(joinids, query, "obs", okObs)
        tVar  == ResolveTask(tObs.joinids, query, "var", okVar)
        j2    == tVar.joinids
        rd    == [obs |-> tObs.reads, var |-> tVar.reads]
        fl    == [obs |-> tObs.reads = 1 /\ ~okObs, var |-> tVar.reads = 1 /\ ~okVar]
        iter0 == XReadTable(gen.layer, j2["obs"].val, j2["var"].val)
    IN /\ Owner
       /\ gen.pc = "created"
       /\ IF valid # "ok"
          THEN /\ GenEnds(valid, Zero, NoFail, "created")
               /\ UNCHANGED <<joinids, failedFirst>>
          ELSE /\ joinids' = j2
               /\ Note(fl)
               /\ IF ~j2["obs"].some \/ ~j2["var"].some
                  THEN GenEnds("AssertionError", rd, fl, "created")
                  ELSE IF EmptySelection(j2)
                  THEN IF Len(EmptySelectionChunks) = 0
                       THEN GenEnds("StopIteration", rd, fl, "created")
                       ELSE GenYields(EmptySelectionChunks, "yield_empty", rd, fl, "created")
                  ELSE IF ~gen.prefetch
                  THEN IF Len(iter0) = 0
                       THEN GenEnds("StopIteration", rd, fl, "created")
                       ELSE GenYields(iter0, "yield_from", rd, fl, "created")
                  ELSE /\ gen' = [gen EXCEPT !.pc = "await", !.iter = iter0,
                                             !.future = [NoFuture EXCEPT !.state = "pending"],
                                             !.inflight = @ + 1]
                       /\ GenBlocks(rd, fl, "created")
       /\ UNCHANGED <<query, callers, indexer, pool, cm, closeCalls, builds>>

\* A later advance of a generator suspended at a yield.
XNextSubmitsAhead ==
    /\ Owner
    /\ gen.pc \in {"yield_empty", "yield_from", "yield_prefetch"}
    /\ IF gen.pc = "yield_prefetch"
       THEN /\ gen' = [gen EXCEPT !.pc = "await", !.inflight = @ + 1]
            /\ GenBlocks(Zero, NoFail, gen.pc)
       ELSE IF Len(gen.iter) = 0
       THEN GenEnds("StopIteration", Zero, NoFail, gen.pc)
       ELSE GenYields(gen.iter, gen.pc, Zero, NoFail, gen.pc)
    /\ UNCHANGED <<query, callers, joinids, indexer, pool, cm, closeCalls, builds, failedFirst>>
XNext ==
    /\ Owner
    /\ gen.pc \in {"yield_empty", "yield_from", "yield_prefetch"}
    /\ IF gen.pc = "yield_prefetch"
       THEN /\ gen' = [gen EXCEPT !.pc = "await"]
            /\ GenBlocks(Zero, NoFail, gen.pc)
       ELSE IF Len(gen.iter) = 0
       THEN GenEnds("StopIteration", Zero, NoFail, gen.pc)
       ELSE GenYields(gen.iter, gen.pc, Zero, NoFail, gen.pc)
    /\ UNCHANGED <<query, callers, joinids, indexer, pool, cm, closeCalls, builds, failedFirst>>

\* A pool thread runs the wrapped generator step fn (wrap_generator._next).
PrefetchRunOpenPoolOnly ==
    /\ pool = "open"
    /\ gen.inflight > 0
    /\ gen.future.state = "pending"
    /\ gen' = [gen EXCEPT
                 !.inflight = @ - 1,
                 !.iter = IF Len(gen.iter) = 0 THEN << >> ELSE Tail(gen.iter),
                 !.future = IF Len(gen.iter) = 0
                            THEN [state |-> "done", value |-> << >>, done |-> TRUE]
                            ELSE [state |-> "done", value |-> Head(gen.iter), done |-> FALSE]]
    /\ UNCHANGED <<query, callers, joinids, indexer, pool, cm, last, ret, closeCalls, builds, failedFirst>>
PrefetchRun ==
    /\ pool \in {"open", "closing"}
    /\ gen.inflight > 0
    /\ gen.future.state = "pending"
    /\ gen' = [gen EXCEPT
                 !.inflight = @ - 1,
                 !.iter = IF Len(gen.iter) = 0 THEN << >> ELSE Tail(gen.iter),
                 !.future = IF Len(gen.iter) = 0
                            THEN [state |-> "done", value |-> << >>, done |-> TRUE]
                            ELSE [state |-> "done", value |-> Head(gen.iter), done |-> FALSE]]
    /\ UNCHANGED <<query, callers, joinids, indexer, pool, cm, last, ret, closeCalls, builds, failedFirst>>

\* _prefetch_future.result() returns (lines 181-186): the generator returns,
\* or submits the next fetch and yields the value.
XAwaitSubmitsBeforeDoneTest ==
    /\ cm = "body"
    /\ gen.pc = "await"
    /\ gen.future.state = "done"
    /\ IF gen.future.done
       THEN /\ gen' = [NoGen EXCEPT !.pc = "closed", !.inflight = gen.inflight + 1]
            /\ ret' = << >>
            /\ last' = Last(StepOp(gen.mode), "-", Step(gen.mode, "StopIteration", << >>).outcome,
                            Zero, NoFail, StepArg("await", gen.yielded, gen.out))
       ELSE \E s \in { Step(gen.mode, "chunk", gen.future.value) } :
               IF s.outcome = "chunk"
               THEN /\ gen' = [gen EXCEPT !.pc = "yield_prefetch",
                                          !.future = [NoFuture EXCEPT !.state = "pending"],
                                          !.inflight = @ + 1,
                                          !.yielded = @ + 1,
                                          !.out = Append(@, s.value)]
                    /\ ret' = s.value
                    /\ last' = Last(StepOp(gen.mode), "-", "chunk", Zero, NoFail,
                                    StepArg("await", gen.yielded + 1, Append(gen.out, s.value)))
               ELSE GenCloses(s.outcome, Zero, NoFail, "await", gen.yielded + 1)
    /\ UNCHANGED <<query, callers, joinids, indexer, pool, cm, closeCalls, builds, failedFirst>>
XAwait ==
    /\ cm = "body"
    /\ gen.pc = "await"
    /\ gen.future.state = "done"
    /\ IF gen.future.done
       THEN GenEnds("StopIteration", Zero, NoFail, "await")
       ELSE \E s \in { Step(gen.mode, "chunk", gen.future.value) } :
               IF s.outcome = "chunk"
               THEN /\ gen' = [gen EXCEPT !.pc = "yield_prefetch",
                                          !.future = [NoFuture EXCEPT !.state = "pending"],
                                          !.inflight = @ + 1,
                                          !.yielded = @ + 1,
                                          !.out = Append(@, s.value)]
                    /\ ret' = s.value
                    /\ last' = Last(StepOp(gen.mode), "-", "chunk", Zero, NoFail,
                                    StepArg("await", gen.yielded + 1, Append(gen.out, s.value)))
               ELSE GenCloses(s.outcome, Zero, NoFail, "await", gen.yielded + 1)
    /\ UNCHANGED <<query, callers, joinids, indexer, pool, cm, closeCalls, builds, failedFirst>>

(***************************************************************************)
(* experiment_query: the with-statement over the context manager.          *)
(***************************************************************************)
\* The body ends normally: the generator resumes after its yield and calls
\* query.close(), which calls _default_threadpool.shutdown().
BodyReturn ==
    /\ Owner
    /\ cm' = "closing"
    /\ closeCalls' = closeCalls + 1
    /\ pool' = "closing"
    /\ ret' = << >>
    /\ last' = Last("close", "-", "blocked", Zero, NoFail, << >>)
    /\ UNCHANGED <<query, callers, joinids, indexer, gen, builds, failedFirst>>

\* shutdown() returns once the submitted tasks have finished.
CloseReturn ==
    /\ cm = "closing"
    /\ gen.inflight = 0
    /\ pool' = "shutdown"
    /\ cm' = "exited"
    /\ last' = [last EXCEPT !.outcome = "ok"]
    /\ UNCHANGED <<query, callers, joinids, indexer, gen, ret, closeCalls, builds, failedFirst>>

\* The body raises: the exception is thrown into the generator at its yield
\* (line 331) and leaves it there; line 332 is not reached.
BodyRaise ==
    /\ Owner
    /\ cm' = "raised"
    /\ ret' = << >>
    /\ last' = Last("raise", "-", "exception", Zero, NoFail, << >>)
    /\ UNCHANGED <<query, callers, joinids, indexer, pool, gen, closeCalls, builds, failedFirst>>

(***************************************************************************)
(* Two callers inside _read_axis_dataframe at the same time (obs() or      *)
(* var() with column_names=None), one line group per step.  Nothing in the *)
(* method takes a lock.                                                    *)
(***************************************************************************)
\* Line 118: need_joinids = self._joinids[axis] is None
CallerChecks(c, axis) ==
    /\ cm = "body"
    /\ callers[c].pc = "idle"
    /\ callers' = [callers EXCEPT ![c] = [Idle EXCEPT !.pc = "checked", !.axis = axis,
                                                      !.need = NeedJoinids(joinids, axis)]]
    /\ UNCHANGED <<query, joinids, indexer, pool, cm, gen, last, ret, closeCalls, builds,
                   failedFirst>>

\* Lines 120-124: the storage read; it raises, or returns the table.
CallerReads(c, ok) ==
    /\ cm = "body"
    /\ callers[c].pc = "checked"
    /\ callers' =
          [callers EXCEPT ![c] =
              IF ok
              THEN [callers[c] EXCEPT
                      !.pc = "read", !.reads = 1,
                      !.ids = JoinidColumn(ReadAll(callers[c].axis, query[callers[c].axis],
                                                   QueryColumns(callers[c].need, None)))]
              ELSE [callers[c] EXCEPT !.pc = "raised", !.reads = 1]]
    /\ UNCHANGED <<query, joinids, indexer, pool, cm, gen, last, ret, closeCalls, builds,
                   failedFirst>>

\* Lines 126-132: the assignment under the flag read at line 118, and return.
CallerAssignsIfUnset(c) ==
    /\ cm = "body"
    /\ callers[c].pc = "read"
    /\ IF callers[c].need /\ ~joinids[callers[c].axis].some
       THEN /\ joinids' = [joinids EXCEPT ![callers[c].axis] = Some(callers[c].ids)]
            /\ callers' = [callers EXCEPT ![c].pc = "done", ![c].assigned = TRUE]
       ELSE /\ callers' = [callers EXCEPT ![c].pc = "done"]
            /\ UNCHANGED joinids
    /\ UNCHANGED <<query, indexer, pool, cm, gen, last, ret, closeCalls, builds, failedFirst>>
CallerAssigns(c) ==
    /\ cm = "body"
    /\ callers[c].pc = "read"
    /\ IF callers[c].need
       THEN /\ joinids' = [joinids EXCEPT ![callers[c].axis] = Some(callers[c].ids)]
            /\ callers' = [callers EXCEPT ![c].pc = "done", ![c].assigned = TRUE]
       ELSE /\ callers' = [callers EXCEPT ![c].pc = "done"]
            /\ UNCHANGED joinids
    /\ UNCHANGED <<query, indexer, pool, cm, gen, last, ret, closeCalls, builds, failedFirst>>

\* The smaller inputs of the specification that combines every operation.
SmallColumnChoices == { None, Some(<<"a", "soma_joinid">>) }
SmallCoordChoices(axis) == IF axis = "obs" THEN { <<20, 10, 20>> } ELSE { <<3, 2>> }
SmallReadChoices ==
    { ReadCall(Name("raw"), << >>, TRUE, None),
      ReadCall(Name("raw"), <<Name("norm")>>, FALSE, Some([obs |-> Some(<<"a">>)])),
      ReadCall(Name("dense"), << >>, FALSE, None) }
SmallLayerChoices == { "raw", "dense" }

Life == BodyReturn \/ CloseReturn \/ BodyRaise

\* Every operation, on the smaller inputs.
Next ==
    \/ \E axis \in Axes, cn \in SmallColumnChoices, ok \in BOOLEAN : AxisTable(axis, cn, ok)
    \/ \E axis \in Axes, ok \in BOOLEAN : AxisJoinids(axis, ok)
    \/ \E axis \in Axes, ok \in BOOLEAN : AxisCount(axis, ok)
    \/ \E axis \in Axes, ok \in BOOLEAN :
          \E coords \in SmallCoordChoices(axis) : Index(axis, coords, ok)
    \/ \E call \in SmallReadChoices, okObs \in BOOLEAN, okVar \in BOOLEAN :
          ReadOp(call, okObs, okVar)
    \/ \E layer \in SmallLayerChoices, prefetch \in BOOLEAN : XCall(layer, prefetch)
    \/ \E okObs \in BOOLEAN, okVar \in BOOLEAN : XStart(okObs, okVar)
    \/ XNext
    \/ PrefetchRun
    \/ XAwait
    \/ Life

Spec == Init /\ [][Next]_vars

\* The axis operations and the indexer, on all their inputs.
NextAxis ==
    \/ \E axis \in Axes, cn \in ColumnChoices, ok \in BOOLEAN : AxisTable(axis, cn, ok)
    \/ \E axis \in Axes, ok \in BOOLEAN : AxisJoinids(axis, ok)
    \/ \E axis \in Axes, ok \in BOOLEAN : AxisCount(axis, ok)
    \/ \E axis \in Axes, ok \in BOOLEAN :
          \E coords \in CoordChoices(axis) : Index(axis, coords, ok)
    \/ Life

SpecAxis == Init /\ [][NextAxis]_vars

\* Construction, followed by the axis operations.
NextConstruct ==
    \/ \E exists \in BOOLEAN, measurement_name \in {"RNA", "ATAC"} :
          Construct(exists, measurement_name)
    \/ NextAxis

SpecConstruct == InitNew /\ [][NextConstruct]_vars

\* The chunked matrix operation X, on all its inputs.
NextX ==
    \/ \E layer \in LayerChoices, prefetch \in BOOLEAN : XCall(layer, prefetch)
    \/ \E okObs \in BOOLEAN, okVar \in BOOLEAN : XStart(okObs, okVar)
    \/ XNext
    \/ PrefetchRun
    \/ XAwait
    \/ Life

SpecX == Init /\ [][NextX]_vars

\* The same with the progress the pool gives: a worker thread runs a
\* submitted fetch to its end (the storage chunk fetch terminates), and
\* shutdown() returns once no submitted task is unfinished.
SpecXFair == SpecX /\ WF_vars(PrefetchRun) /\ WF_vars(CloseReturn)

\* read, on all its inputs.
NextRead ==
    \/ \E call \in ReadChoices, okObs \in BOOLEAN, okVar \in BOOLEAN :
          ReadOp(call, okObs, okVar)
    \/ Life

SpecRead == Init /\ [][NextRead]_vars

\* The async facade next to the synchronous chunked matrix operation.
NextAsync ==
    \/ \E axis \in Axes, cn \in SmallColumnChoices, ok \in BOOLEAN :
          AsyncAxisTable(axis, cn, ok)
    \/ \E axis \in Axes, ok \in BOOLEAN : AsyncAxisJoinids(axis, ok)
    \/ \E layer \in LayerChoices, prefetch \in BOOLEAN : AsyncXCall(layer, prefetch)
    \/ \E layer \in LayerChoices, prefetch \in BOOLEAN : XCall(layer, prefetch)
    \/ \E okObs \in BOOLEAN, okVar \in BOOLEAN : XStart(okObs, okVar)
    \/ XNext
    \/ PrefetchRun
    \/ XAwait
    \/ Life

SpecAsync == Init /\ [][NextAsync]_vars

\* Two concurrent callers of obs() / var().
NextRace ==
    \/ \E c \in Callers, axis \in Axes : CallerChecks(c, axis)
    \/ \E c \in Callers, ok \in BOOLEAN : CallerReads(c, ok)
    \/ \E c \in Callers : CallerAssigns(c)

SpecRace == Init /\ [][NextRace]_vars

(***************************************************************************)
(* Properties.                                                             *)
(***************************************************************************)
\* The identifiers a query selects on an axis: those of the rows of the store,
\* in store order, that pass coords and value_filter.
ExpectedIds(axis) ==
    LET st == AxisStore(axis)
        Sel == {i \in 1..Len(st) : /\ st[i].soma_joinid \in query[axis].coords
                                   /\ st[i].a \in query[axis].value_filter}
        Rank(i) == Cardinality({k \in Sel : k <= i})
    IN [n \in 1..Cardinality(Sel) |-> st[CHOOSE i \in Sel : Rank(i) = n].soma_joinid]

Resolved == joinids["obs"].some /\ joinids["var"].some
AxisOps == {"axis_table", "axis_joinids", "axis_count", "index"}

\* C1: whenever the with-statement over experiment_query has been left, on
\* normal completion of the body or by an exception raised in it, close() has
\* been called exactly once.
C1_CloseOnEveryExit ==
    cm \in {"closing", "exited", "raised"} => closeCalls = 1

\* C2: when the first advance of X(layer) resolves an axis and the storage
\* read of that axis fails, the caller gets the storage error itself, and the
\* axis is read at most once.
C2_StorageErrorPropagates ==
    (last.op = "next" /\ \E a \in Axes : last.failed[a]) =>
        /\ last.outcome = "StorageError"
        /\ \A a \in Axes : last.reads[a] <= 1

\* The names of a call of read, and whether a name offends lines 228-234.
CallNames(call) == <<call.X_name>> \o call.X_layers
BadName(n) ==
    \/ ~n.isStr
    \/ n.s = ""
    \/ n.s \notin DOMAIN XCollection
    \/ XCollection[n.s].soma_type # "SOMASparseNDArray"
DenseName(n) ==
    /\ n.isStr
    /\ n.s \in DOMAIN XCollection
    /\ XCollection[n.s].soma_type # "SOMASparseNDArray"
DistinctNames(names) ==
    \A i \in 1..Len(names) : \A k \in 1..Len(names) : names[i] = names[k] => i = k

\* The latest operation is a read whose names are valid and distinct and whose
\* axis reads both succeeded.
ReadWentThrough ==
    /\ last.op = "read"
    /\ \A i \in 1..Len(CallNames(last.arg)) : ~BadName(CallNames(last.arg)[i])
    /\ DistinctNames(CallNames(last.arg))
    /\ \A a \in Axes : ~last.failed[a]

\* The latest operation advanced a generator of X whose layer is valid.
AdvancedValidX == last.op = "next" /\ XValidate(last.arg.layer) = "ok"

\* C3 (as claimed): with both axes resolved and one identifier set empty, the
\* matrix read yields zero chunks without an error, and read succeeds with
\* empty matrix tables.
C3_ZeroChunks ==
    (Resolved /\ EmptySelection(joinids)) =>
        /\ AdvancedValidX =>
              /\ last.outcome = "StopIteration"
              /\ last.arg.yielded = 0
        /\ ReadWentThrough =>
              /\ last.outcome = "ok"
              /\ Len(ret.X) = 0
              /\ \A n \in DOMAIN ret.X_layers : Len(ret.X_layers[n]) = 0

\* C3 (amended): with both axes resolved and one identifier set empty, the
\* matrix read, with or without prefetch, yields exactly one chunk, which has
\* no rows, and then ends, without an error; read succeeds with empty matrix
\* tables.
C3_OneEmptyChunk ==
    (Resolved /\ EmptySelection(joinids)) =>
        /\ AdvancedValidX =>
              \/ /\ last.outcome = "chunk"
                 /\ last.arg.from = "created"
                 /\ Len(ret) = 0
                 /\ last.arg.yielded = 1
              \/ /\ last.outcome = "StopIteration"
                 /\ last.arg.from = "yield_empty"
                 /\ last.arg.yielded = 1
        /\ ReadWentThrough =>
              /\ last.outcome = "ok"
              /\ Len(ret.X) = 0
              /\ \A n \in DOMAIN ret.X_layers : Len(ret.X_layers[n]) = 0

\* C3 witness: a prefetching matrix read over an empty selection is exhausted.
C3_Witness ==
    /\ Resolved /\ EmptySelection(joinids)
    /\ AdvancedValidX
    /\ last.arg.prefetch
    /\ last.outcome = "StopIteration"

\* C4: the identifier cache of an axis is write-once: a step never changes a
\* cache that is set; a cache that is set holds the identifiers the query
\* selects, in store order, whatever columns the reads asked for; and
\* obs_joinids / var_joinids return that sequence.
C4_CacheWriteOnce ==
    [][\A a \in Axes :
          /\ joinids[a].some => joinids'[a] = joinids[a]
          /\ joinids'[a].some => joinids'[a].val = ExpectedIds(a)
          /\ (last'.op = "axis_joinids" /\ last'.axis = a /\ last'.outcome = "ok")
                => ret' = ExpectedIds(a)]_vars

\* C4 witness: an axis table is read with explicit columns after the cache of
\* that axis was set, and the cache holds more than one identifier.
C4_Witness ==
    /\ last.op = "axis_table"
    /\ last.outcome = "ok"
    /\ last.cachedBefore[last.axis]
    /\ last.arg.column_names.some
    /\ Len(joinids[last.axis].val) > 1

\* C5: a storage read that fails while the cache of its axis is unset leaves
\* the cache unset; a later operation on that axis that finds the cache unset
\* and succeeds has issued a storage read and has set the cache to the
\* identifiers the query selects.
C5_FailedReadLeavesCacheUnset ==
    \A a \in Axes :
        (last.op \in AxisOps /\ last.axis = a /\ ~last.cachedBefore[a]) =>
            /\ last.failed[a] => (~joinids[a].some /\ last.outcome = "StorageError")
            /\ (failedFirst[a] /\ last.outcome = "ok") =>
                  /\ last.reads[a] = 1
                  /\ joinids[a] = Some(ExpectedIds(a))

\* C5 witness: after a failed first read of an axis, a read of that axis
\* succeeded and set the cache.
C5_Witness ==
    \E a \in Axes :
        /\ failedFirst[a]
        /\ last.op \in AxisOps /\ last.axis = a /\ ~last.cachedBefore[a]
        /\ last.outcome = "ok"
        /\ joinids[a].some /\ Len(joinids[a].val) > 0

\* C6: a call of X with an empty, unknown or dense layer raises at that call,
\* before any axis read.
C6_ValidationAtCall ==
    (last.op = "X" /\ XValidate(last.arg.layer) # "ok") =>
        /\ last.outcome \in {"ValueError", "NotImplementedError"}
        /\ \A a \in Axes : last.reads[a] = 0

\* C7 (as claimed): read fails with ValueError whenever one of its matrix
\* names is not a string, is empty, is unknown or names a dense matrix.
C7_BadNameValueError ==
    (last.op = "read" /\ \E i \in 1..Len(CallNames(last.arg)) : BadName(CallNames(last.arg)[i]))
        => last.outcome = "ValueError"

\* C7 (amended): read fails whenever one of its matrix names is not a string,
\* is empty, is unknown or names a dense matrix; the error is that of the
\* first offending name in the order primary, extras: NotImplementedError
\* when that name is a dense matrix, ValueError otherwise.
C7_BadNameRaises ==
    LET names == CallNames(last.arg)
        Bad == {i \in 1..Len(names) : BadName(names[i])}
        first == CHOOSE i \in Bad : \A k \in Bad : i <= k
    IN (last.op = "read" /\ Bad # {}) =>
          last.outcome = IF DenseName(names[first]) THEN "NotImplementedError"
                         ELSE "ValueError"

\* C7 witness: read was called with a dense extra matrix and failed.
C7_Witness ==
    /\ last.op = "read"
    /\ Len(last.arg.X_layers) > 0
    /\ DenseName(last.arg.X_layers[1])
    /\ last.outcome = "NotImplementedError"

\* C8: the obs and var tables returned by read with use_position_indexing do
\* not have the column soma_joinid.
C8_JoinidDropped ==
    (last.op = "read" /\ last.outcome = "ok" /\ last.arg.use_position_indexing) =>
        /\ "soma_joinid" \notin Range(ret.obs.cols)
        /\ "soma_joinid" \notin Range(ret.var.cols)

\* The rows of matrix n that read fetches for the cached identifiers.
FetchedRows(n) == ConcatTables(FetchX(n, joinids))

\* Table tbl is the positional rewrite of the fetched rows of matrix n: as
\* many rows, and row by row the same value, with the row (column) index the
\* 0-based place of the row's obs (var) identifier in the cached sequence.
IsPositionalRewrite(tbl, n) ==
    LET orig == FetchedRows(n)
        oids == joinids["obs"].val
        vids == joinids["var"].val
    IN /\ Len(tbl) = Len(orig)
       /\ \A i \in 1..Len(tbl) :
             /\ tbl[i]["_dim_0"] \in 0..(Len(oids) - 1)
             /\ oids[tbl[i]["_dim_0"] + 1] = orig[i].soma_dim_0
             /\ tbl[i]["_dim_1"] \in 0..(Len(vids) - 1)
             /\ vids[tbl[i]["_dim_1"] + 1] = orig[i].soma_dim_1
             /\ tbl[i]["soma_data"] = orig[i].soma_data

\* C9: every matrix table of a result of read with use_position_indexing is
\* the positional rewrite of the rows fetched for that matrix.
C9_PositionalRewrite ==
    (last.op = "read" /\ last.outcome = "ok" /\ last.arg.use_position_indexing) =>
        /\ IsPositionalRewrite(ret.X, last.arg.X_name.s)
        /\ \A n \in DOMAIN ret.X_layers : IsPositionalRewrite(ret.X_layers[n], n)

\* C9 witness: a positional result with an extra matrix, whose primary matrix
\* has two rows, the second at row position 1.
C9_Witness ==
    /\ last.op = "read" /\ last.outcome = "ok" /\ last.arg.use_position_indexing
    /\ DOMAIN ret.X_layers # {}
    /\ Len(ret.X) >= 2
    /\ ret.X[2]["_dim_0"] = 1

\* C10: obs_index / var_index returns one position per input identifier, in
\* input order: the 0-based place in the cached sequence of an identifier that
\* is in it, the sentinel for one that is not, equal outputs for equal
\* inputs; the index of an axis is built at most once and holds the cached
\* sequence.
C10_IndexLookup ==
    /\ \A a \in Axes :
          /\ builds[a] <= 1
          /\ indexer[a].some => (joinids[a].some /\ indexer[a].val = joinids[a].val)
    /\ (last.op = "index" /\ last.outcome = "ok") =>
          LET ids == joinids[last.axis].val
              coords == last.arg.coords
          IN /\ Len(ret) = Len(coords)
             /\ \A i \in 1..Len(coords) :
                   IF coords[i] \in Range(ids)
                   THEN ret[i] \in 0..(Len(ids) - 1) /\ ids[ret[i] + 1] = coords[i]
                   ELSE ret[i] = Sentinel
             /\ \A i \in 1..Len(coords) : \A k \in 1..Len(coords) :
                   coords[i] = coords[k] => ret[i] = ret[k]

\* C10 witness: a lookup on an index built by an earlier call, with an
\* identifier that is absent and one that is not at the first place.
C10_Witness ==
    /\ last.op = "index" /\ last.outcome = "ok"
    /\ last.arg.built = 0
    /\ \E i \in 1..Len(ret) : ret[i] = Sentinel
    /\ \E i \in 1..Len(ret) : ret[i] > 0

\* The stored cells of a matrix whose row is in O and whose column is in V.
StoredCells(layer, O, V) ==
    {c \in Range(XCollection[layer].cells) :
        c.soma_dim_0 \in Range(O) /\ c.soma_dim_1 \in Range(V)}

\* C11: the chunks one matrix read has yielded for the resolved identifier
\* sets O and V are pairwise disjoint, hold no cell twice and no cell outside
\* O x V; when the read is exhausted they hold every stored cell of O x V.
C11_ChunksAreFilteredMatrix ==
    (AdvancedValidX /\ Resolved) =>
        LET out == last.arg.out
            all == ConcatTables(out)
            sel == StoredCells(last.arg.layer, joinids["obs"].val, joinids["var"].val)
        IN /\ \A i \in 1..Len(out) : \A k \in 1..Len(out) :
                 i # k => Range(out[i]) \cap Range(out[k]) = {}
           /\ \A i \in 1..Len(all) : \A k \in 1..Len(all) : all[i] = all[k] => i = k
           /\ Range(all) \subseteq sel
           /\ last.outcome = "StopIteration" => Range(all) = sel

\* C11 witness: a read is exhausted after more than one chunk, and a stored
\* cell of its matrix lies outside O x V.
C11_Witness ==
    /\ AdvancedValidX /\ Resolved
    /\ last.outcome = "StopIteration"
    /\ Len(last.arg.out) >= 2
    /\ StoredCells(last.arg.layer, joinids["obs"].val, joinids["var"].val)
          # Range(XCollection[last.arg.layer].cells)

\* The rows of the store a query selects on an axis, in store order.
ExpectedRows(axis) ==
    LET st == AxisStore(axis)
        Sel == {i \in 1..Len(st) : /\ st[i].soma_joinid \in query[axis].coords
                                   /\ st[i].a \in query[axis].value_filter}
        Rank(i) == Cardinality({k \in Sel : k <= i})
    IN [n \in 1..Cardinality(Sel) |-> st[CHOOSE i \in Sel : Rank(i) = n]]

\* Table tbl holds exactly the selected rows of the axis, in its columns.
IsFilteredTable(tbl, axis) ==
    LET rows == ExpectedRows(axis)
    IN /\ Len(tbl.rows) = Len(rows)
       /\ \A i \in 1..Len(rows) : \A c \in Range(tbl.cols) : tbl.rows[i][c] = rows[i][c]
       /\ \A i \in 1..Len(rows) :
             /\ rows[i].a \in query[axis].value_filter
             /\ rows[i].soma_joinid \in query[axis].coords

\* C12: n_obs and n_vars are the number of rows the query selects on the
\* axis, and the obs and var tables returned by obs(), var() and read hold
\* exactly the selected rows.
C12_FilteredShape ==
    /\ (last.op = "axis_count" /\ last.outcome = "ok") =>
          ret = << Len(ExpectedRows(last.axis)) >>
    /\ (last.op = "axis_table" /\ last.outcome = "ok") =>
          IsFilteredTable(ret, last.axis)
    /\ (last.op = "read" /\ last.outcome = "ok") =>
          /\ IsFilteredTable(ret.obs, "obs")
          /\ IsFilteredTable(ret.var, "var")

\* C12 witness: a count that is positive and smaller than the full axis.
C12_Witness ==
    /\ last.op = "axis_count" /\ last.outcome = "ok"
    /\ ret[1] > 0
    /\ ret[1] < Len(AxisStore(last.axis))

\* The operations of the async facade that the facade dispatches.
AsyncOps == {"async_axis_table", "async_axis_joinids", "anext"}

\* C13: every operation of the async facade dispatches its blocking call onto
\* the query's own worker pool.
C13_DispatchOnQueryPool ==
    last.op \in AsyncOps => last.arg.executor = QueryPool

IsPrefix(a, b) == Len(a) <= Len(b) /\ \A i \in 1..Len(a) : a[i] = b[i]

\* How a sequence of chunks tells its consumer that it is exhausted.
Exhausted(op) == IF op = "next" THEN "StopIteration" ELSE "StopAsyncIteration"

\* C14: for the same query state, layer and prefetch flag, the async X and
\* the synchronous X hand over the same chunks in the same order: with both
\* axes resolved and a valid layer, each of them, step by step, hands over a
\* prefix of one sequence that depends on the layer and the cached
\* identifiers only, and has handed over all of it when it ends; with an
\* invalid layer both fail on the first advance with the same error.
C14_AsyncSameSequence ==
    (last.op \in {"next", "anext"}) =>
        /\ (XValidate(last.arg.layer) = "ok" /\ Resolved) =>
              /\ last.outcome \in {"chunk", "blocked", Exhausted(last.op)}
              /\ IsPrefix(last.arg.out, FetchX(last.arg.layer, joinids))
              /\ last.outcome = "chunk" => ret = last.arg.out[Len(last.arg.out)]
              /\ last.outcome = Exhausted(last.op) =>
                    last.arg.out = FetchX(last.arg.layer, joinids)
        /\ XValidate(last.arg.layer) # "ok" =>
              /\ last.outcome = XValidate(last.arg.layer)
              /\ last.arg.out = << >>

\* C14 witness: a prefetching async X is exhausted after two chunks.
C14_Witness ==
    /\ last.op = "anext"
    /\ last.outcome = "StopAsyncIteration"
    /\ last.arg.prefetch
    /\ Len(last.arg.out) = 2

\* The number of chunks taken from the storage sequence of the running read.
Fetched ==
    Len(XReadTable(gen.layer, joinids["obs"].val, joinids["var"].val)) - Len(gen.iter)

\* C15: during a matrix read with prefetch, at most one fetch task of the
\* read is submitted and unfinished, and at most one chunk has been fetched
\* beyond those handed to the caller.
C15_PrefetchDepthOne ==
    /\ gen.inflight <= 1
    /\ (gen.prefetch /\ gen.pc \in {"await", "yield_prefetch"}) =>
          /\ Fetched <= gen.yielded + 1
          /\ gen.inflight = 1 => gen.future.state = "pending"

\* C15 witness: the caller holds the first chunk of a prefetching read while
\* the fetch of the next one is unfinished on the pool.
C15_Witness ==
    /\ gen.prefetch /\ gen.pc = "yield_prefetch"
    /\ gen.yielded = 1
    /\ gen.inflight = 1
    /\ Len(gen.iter) > 0

\* C16: when close() is called, at most one prefetch task of an abandoned
\* read is unfinished, and close() eventually returns, with no task left
\* unfinished; the chunk the task fetched is handed to nobody.
C16_AbandonedPrefetchCompletes ==
    /\ [](cm = "closing" => gen.inflight <= 1)
    /\ (cm = "closing") ~> (cm = "exited" /\ gen.inflight = 0)
    /\ [][cm # "body" => gen'.yielded = gen.yielded /\ ret' = ret]_vars

\* C16 witness: close() has returned after a prefetching read was abandoned
\* at its first chunk; the task left in flight has run and fetched a chunk.
C16_Witness ==
    /\ cm = "exited"
    /\ gen.prefetch /\ gen.pc = "yield_prefetch"
    /\ gen.yielded = 1
    /\ gen.future.state = "done" /\ ~gen.future.done
    /\ gen.inflight = 0

\* C17: constructing a query for an experiment that does not exist or a
\* measurement that is not in it fails with ValueError; the failure leaves
\* no pool, and no axis or matrix was read.
C17_ConstructionFailsBeforePool ==
    /\ (last.op = "construct" /\ (~last.arg.exists
                                    \/ last.arg.measurement_name \notin Measurements)) =>
          /\ last.outcome = "ValueError"
          /\ cm = "failed"
    /\ cm = "failed" =>
          /\ pool = "none"
          /\ closeCalls = 0
          /\ \A a \in Axes : last.reads[a] = 0 /\ ~joinids[a].some /\ ~indexer[a].some
          /\ gen = NoGen
    /\ pool = "none" => cm \in {"new", "failed"}

\* C17 witness: construction failed for an existing experiment without the
\* named measurement.
C17_Witness ==
    /\ last.op = "construct"
    /\ last.arg.exists
    /\ last.arg.measurement_name = "ATAC"
    /\ cm = "failed"

\* C18: the async X ends only when its generator is exhausted: every chunk
\* the generator has yielded was handed to the consumer, a chunk without rows
\* included, and over an empty selection the consumer gets one chunk without
\* rows and then the end of the sequence.
C18_EndOnlyByDoneFlag ==
    (last.op = "anext") =>
        /\ Len(last.arg.out) = last.arg.yielded
        /\ last.outcome # "AssertionError" \/ ~Resolved
        /\ (XValidate(last.arg.layer) = "ok" /\ Resolved /\ EmptySelection(joinids)) =>
              \/ /\ last.outcome = "chunk"
                 /\ last.arg.from = "created"
                 /\ Len(ret) = 0
                 /\ last.arg.out = << << >> >>
              \/ /\ last.outcome = "StopAsyncIteration"
                 /\ last.arg.from = "yield_empty"
                 /\ last.arg.out = << << >> >>

\* C18 witness: an async X over an empty selection has ended after handing
\* over its one chunk, which has no rows.
C18_Witness ==
    /\ last.op = "anext"
    /\ Resolved /\ EmptySelection(joinids)
    /\ last.outcome = "StopAsyncIteration"
    /\ last.arg.out = << << >> >>

\* C19: lazy initialization is not guarded: a caller that saw the cache of
\* its axis unset issues a storage read and assigns the cache when the read
\* returns, whatever another caller has done to the cache meanwhile; so two
\* callers that both saw it unset both read and both assign.
C19_UnguardedLazyInit ==
    \A c \in Callers :
        /\ callers[c].pc \in {"read", "raised", "done"} => callers[c].reads = 1
        /\ callers[c].pc = "done" => callers[c].assigned = callers[c].need
        /\ callers[c].assigned =>
              joinids[callers[c].axis] = Some(ExpectedIds(callers[c].axis))

\* C19 witness: both callers saw the cache of the same axis unset, both
\* issued a storage read, and both assigned the cache.
C19_Witness ==
    /\ callers[1].axis = callers[2].axis
    /\ \A c \in Callers :
          /\ callers[c].pc = "done"
          /\ callers[c].need
          /\ callers[c].reads = 1
          /\ callers[c].assigned

\* C20: read validates all its matrix names before it submits a task or
\* reads storage: a call with an offending name, primary or extra, fails and
\* leaves both identifier caches and the indexer as they were, with no axis
\* read and no matrix read issued.
C20_ReadValidatesFirst ==
    [][(last'.op = "read"
          /\ \E i \in 1..Len(CallNames(last'.arg)) : BadName(CallNames(last'.arg)[i]))
        => /\ last'.outcome \in {"ValueError", "NotImplementedError"}
           /\ joinids' = joinids
           /\ indexer' = indexer
           /\ builds' = builds
           /\ last'.reads = [obs |-> 0, var |-> 0, X |-> 0]]_vars

\* C20 witness: a call of read whose primary name is valid and whose second
\* extra name is not has failed on a query whose caches are unset.
C20_Witness ==
    /\ last.op = "read"
    /\ ~BadName(last.arg.X_name)
    /\ Len(last.arg.X_layers) = 2
    /\ BadName(last.arg.X_layers[2])
    /\ last.outcome = "ValueError"
    /\ ~joinids["obs"].some /\ ~joinids["var"].some

\* The chunks a read without prefetch yields for the cached identifiers
\* (lines 168-174): one table without rows for an empty selection, otherwise
\* the chunks of the storage read, in its order.
WithoutPrefetch(layer) ==
    IF EmptySelection(joinids) THEN EmptySelectionChunks
    ELSE XReadTable(layer, joinids["obs"].val, joinids["var"].val)

\* C21: a matrix read iterated to exhaustion has yielded, with prefetch and
\* without, the chunks a read without prefetch yields for the same
\* identifiers, in the same order; when a read is exhausted no fetch task of
\* it is unfinished on the pool.
C21_PrefetchSameChunks ==
    (AdvancedValidX /\ Resolved /\ last.outcome = "StopIteration") =>
        /\ last.arg.out = WithoutPrefetch(last.arg.layer)
        /\ last.arg.yielded = Len(WithoutPrefetch(last.arg.layer))
        /\ gen.pc = "closed"
        /\ gen.inflight = 0

\* C21 witness: a prefetching read over a selection that is not empty is
\* exhausted after two chunks.
C21_Witness ==
    /\ AdvancedValidX /\ Resolved /\ last.outcome = "StopIteration"
    /\ last.arg.prefetch
    /\ last.arg.from = "await"
    /\ ~EmptySelection(joinids)
    /\ Len(last.arg.out) = 2

====
